---------------------------- MODULE Spec2Model ----------------------------
(***************************************************************************)
(* State-machine model of the two scraping scripts of text-scraper:        *)
(*   variant "enhanced" : src/unnamed/part_000 (scroll, accordions, tabs,  *)
(*                        JavaScript-line filter, failed_scrapes.txt)      *)
(*   variant "basic"    : src/textScraper.js                               *)
(* A text is a sequence of chunks (a chunk is a literal piece of text such *)
(* as "function", " ", "{" or a line break); the regular expressions of    *)
(* the source are evaluated on the chunk sequence.  The browser is the     *)
(* environment: every call into it returns one of the results it can       *)
(* return, or throws.                                                      *)
(***************************************************************************)
EXTENDS Integers, Sequences, FiniteSets, TLC

(* ------------------------------ bounds -------------------------------- *)
\* longest target list (websites.txt)
MaxUrls == 2
\* largest scrollable height of a page still to be scrolled, in steps of 50 px
MaxHeight == 3
\* most accordion titles on a page (counted once per selector matching them)
MaxElems == 2
\* most tab titles on a page (counted once per selector matching them)
MaxTabs == 2
\* longest generated text block (in chunks) given to the line filter
MaxTextLen == 3

(* ------------------------- program constants -------------------------- *)
\* part_000:17  const distance = 100
distance == 100
\* part_000:66-72  accordionSelectors.length
NumAccordionSelectors == 5
\* part_000:120-125  tabSelectors.length
NumTabSelectors == 4

NULL == "null"

(* ============================ text chunks ============================= *)
\* what String.prototype.trim removes and \s matches, among the chunks used
Whitespace == {" ", "\t", "\r"}

\* /\r?\n/ matches at position p of text t
IsSeparatorAt(t, p) ==
    \/ t[p] = "\n"
    \/ t[p] = "\r" /\ p < Len(t) /\ t[p + 1] = "\n"

HasSeparator(t) == \E p \in 1..Len(t) : IsSeparatorAt(t, p)

FirstSeparator(t) ==
    CHOOSE p \in 1..Len(t) :
        IsSeparatorAt(t, p) /\ \A q \in 1..(p - 1) : ~IsSeparatorAt(t, q)

\* contentText.split(/\r?\n/)
RECURSIVE SplitLines(_)
SplitLines(t) ==
    IF ~HasSeparator(t) THEN <<t>>
    ELSE LET p == FirstSeparator(t)
             n == IF t[p] = "\n" THEN 1 ELSE 2
         IN  <<SubSeq(t, 1, p - 1)>> \o SplitLines(SubSeq(t, p + n, Len(t)))

\* line.trim(); a line break inside a line cannot occur after the split
RECURSIVE TrimLeft(_)
TrimLeft(line) ==
    IF line # <<>> /\ Head(line) \in Whitespace \cup {"\n"}
    THEN TrimLeft(Tail(line)) ELSE line

RECURSIVE TrimRight(_)
TrimRight(line) ==
    IF line # <<>> /\ line[Len(line)] \in Whitespace \cup {"\n"}
    THEN TrimRight(SubSeq(line, 1, Len(line) - 1)) ELSE line

Trim(line) == TrimRight(TrimLeft(line))

\* .map((line) => line.trim())
MapTrim(ls) == [i \in 1..Len(ls) |-> Trim(ls[i])]

\* .filter((line) => line.length > 0)
FilterNonEmpty(ls) == SelectSeq(ls, LAMBDA l : Len(l) > 0)

(* ---------------------- isJavaScriptLine patterns --------------------- *)
Keywords ==
    {"var", "let", "const", "function", "if", "else", "for", "while",
     "return", "class"}

\* the chunks line[i..j] are all whitespace (\s*)
AllWhitespace(line, i, j) == \A k \in i..j : line[k] \in Whitespace

\* chunk a, then \s*, then chunk b, somewhere in the line from position `from`
\* (anchored = TRUE: a must be the first chunk)
FollowedBy(line, a, b, anchored) ==
    \E i \in 1..Len(line) : \E j \in (i + 1)..Len(line) :
        /\ anchored => i = 1
        /\ line[i] = a
        /\ line[j] = b
        /\ AllWhitespace(line, i + 1, j - 1)

\* /^(var|let|const|function|if|else|for|while|return|class)\s/
PatKeyword(line) ==
    Len(line) >= 2 /\ line[1] \in Keywords /\ line[2] \in Whitespace

\* /jQuery|^\$\(|\.ready\(/
PatJQuery(line) ==
    \/ \E i \in 1..Len(line) : line[i] \in {"jQuery", ".ready("}
    \/ Len(line) >= 1 /\ line[1] = "$("

\* /\.ajax\(|\.get\(|\.post\(/
PatAjax(line) == \E i \in 1..Len(line) : line[i] \in {".ajax(", ".get(", ".post("}

\* /console\.(log|error|warn)/
PatConsole(line) ==
    \E i \in 1..Len(line) :
        line[i] \in {"console.log", "console.error", "console.warn"}

\* /document\.(getElementById|querySelector|addEventListener)/
PatDocument(line) ==
    \E i \in 1..Len(line) :
        line[i] \in {"document.getElementById", "document.querySelector",
                     "document.addEventListener"}

\* /window\.(location|addEventListener|setTimeout)/
PatWindow(line) ==
    \E i \in 1..Len(line) :
        line[i] \in {"window.location", "window.addEventListener",
                     "window.setTimeout"}

\* /\.then\(|\.catch\(|async\s|await\s/
PatPromise(line) ==
    \/ \E i \in 1..Len(line) : line[i] \in {".then(", ".catch("}
    \/ \E i \in 1..(Len(line) - 1) :
          line[i] \in {"async", "await"} /\ line[i + 1] \in Whitespace

\* /^function\s*\(/
PatFunctionExpr(line) == FollowedBy(line, "function", "(", TRUE)

\* /=>\s*{/
PatArrow(line) == FollowedBy(line, "=>", "{", FALSE)

\* /^\{.*\}$/
PatBraces(line) ==
    Len(line) >= 2 /\ line[1] = "{" /\ line[Len(line)] = "}"

\* /^}$/
PatCloseBrace(line) == line = <<"}">>

\* /;\s*$/
PatSemicolon(line) ==
    \E i \in 1..Len(line) : line[i] = ";" /\ AllWhitespace(line, i + 1, Len(line))

\* jsPatterns.some((pattern) => pattern.test(line))
isJavaScriptLine(line) ==
    \/ PatKeyword(line)
    \/ PatJQuery(line)
    \/ PatAjax(line)
    \/ PatConsole(line)
    \/ PatDocument(line)
    \/ PatWindow(line)
    \/ PatPromise(line)
    \/ PatFunctionExpr(line)
    \/ PatArrow(line)
    \/ PatBraces(line)
    \/ PatCloseBrace(line)
    \/ PatSemicolon(line)

\* .filter((line) => !isJavaScriptLine(line))
FilterJavaScript(ls) == SelectSeq(ls, LAMBDA l : ~isJavaScriptLine(l))

\* a plausible slip: the lines are filtered but never trimmed
NormalizeLinesNoTrim(text) ==
    FilterJavaScript(FilterNonEmpty(SplitLines(text)))

\* part_000: split, trim, drop empty lines, drop JavaScript lines
NormalizeLines(text) ==
    FilterJavaScript(FilterNonEmpty(MapTrim(SplitLines(text))))

\* textScraper.js: split, trim, drop empty lines
BasicNormalizeLines(text) == FilterNonEmpty(MapTrim(SplitLines(text)))

(* ============================ file names ============================== *)
\* .replace(/\//g, "_")
SlashesToUnderscores(p) ==
    [i \in 1..Len(p) |-> IF p[i] = "/" THEN "_" ELSE p[i]]

RECURSIVE StripLeadingUnderscores(_)
StripLeadingUnderscores(p) ==
    IF p # <<>> /\ Head(p) = "_" THEN StripLeadingUnderscores(Tail(p)) ELSE p

RECURSIVE StripTrailingUnderscores(_)
StripTrailingUnderscores(p) ==
    IF p # <<>> /\ p[Len(p)] = "_"
    THEN StripTrailingUnderscores(SubSeq(p, 1, Len(p) - 1)) ELSE p

\* new URL(url).pathname: the path without host and query; "/" when empty
Pathname(url) == IF url.path = <<>> THEN <<"/">> ELSE url.path

\* pagePath: pathname with "/" -> "_", leading/trailing "_" removed,
\* "homepage" when nothing is left
PagePath(url) ==
    LET p == StripTrailingUnderscores(
                 StripLeadingUnderscores(SlashesToUnderscores(Pathname(url))))
    IN  IF p = <<>> THEN <<"homepage">> ELSE p

\* path.join(outputDir, `<prefix>_${pagePath}_content.csv`)
FilePath(prefix, url) == <<prefix, "_">> \o PagePath(url) \o <<"_content.csv">>

\* text.replace(/"/g, '""')
EscapeQuotes(line) ==
    [i \in 1..Len(line) |-> IF line[i] = "\"" THEN "\"\"" ELSE line[i]]

\* csvContent: optional BOM, the header row, one quoted row per line
CsvContent(bom, ls) ==
    [bom |-> bom, header |-> "Extracted Text",
     rows |-> [i \in 1..Len(ls) |-> EscapeQuotes(ls[i])]]

(* ============================== inputs ================================ *)
\* the URLs a target list is drawn from: two hosts with the same path (the
\* second with repeated slashes and a query string), and a home page
Urls ==
    { [host |-> "a.example", path |-> <<"/", "about">>, search |-> ""],
      [host |-> "b.example", path |-> <<"/", "/", "about", "/">>, search |-> "?p=2"],
      [host |-> "a.example", path |-> <<"/">>, search |-> ""] }

\* websites.txt after the blank and "#" lines are dropped
TargetLists == UNION { [1..n -> Urls] : n \in 0..MaxUrls }

\* error.message of whatever the browser or the file system throws
ErrorMessages == {"Timeout 10000ms exceeded", "Target closed"}

ExampleText ==
    <<"Welcome", "\n", "\n", " ", " ", "\n",
      "function", " ", "foo()", " ", "{", "\n", "Contact us">>

CodeOnlyText == <<"var", " ", "x = 1", ";", "\r", "\n", "}", "\n", " ">>

QuotedText == <<" ", "She said ", "\"", "hi", "\"", "\t", "\r", "\n">>

BlankText == <<" ", "\n", "\t", "\r", "\n">>

\* what contentHandle.evaluate can return for the pages of a run
PageTexts == {ExampleText, CodeOnlyText, QuotedText, BlankText}

\* document.body.scrollHeight minus the distance scrolled so far, in px
Heights == { 50 * h : h \in 0..MaxHeight }

(* =============================== state ================================ *)
VARIABLES
    variant,        \* which script runs: "enhanced" (part_000) or "basic"
    websites,       \* the target list
    idx,            \* position of the for-of loop in websites (0 before it)
    pc,             \* the statement the script is at
    browserOpen,    \* browser launched and not yet closed
    failedUrls,     \* part_000: const failedUrls = []
    files,          \* scraped_text/*.csv : file path -> content
    logFile,        \* scraped_text/failed_scrapes.txt: <<>> or <<its content>>
    logWrites,      \* number of writes of failed_scrapes.txt
    contentHandle,  \* let contentHandle
    contentText,    \* const contentText
    lines,          \* const lines
    scroll,         \* autoScroll: the timer and the scroll position
    acc,            \* expandAccordions: loop position and counters
    tab,            \* processAllTabs: loop position and counters
    results,        \* history: what each finished iteration produced
    failedAt,       \* history: iteration that pushed each failedUrls entry
    navLog,         \* history: the URLs given to page.goto, in order
    stageLog        \* history: the stages run for the current URL

vars ==
    <<variant, websites, idx, pc, browserOpen, failedUrls, files, logFile,
      logWrites, contentHandle, contentText, lines, scroll, acc, tab, results,
      failedAt, navLog, stageLog>>

url == websites[idx]

NoScroll == [ahead |-> 0, timer |-> FALSE, atTop |-> TRUE, resets |-> 0]

NoAcc ==
    [sel |-> 1, pos |-> "query", accordionTitles |-> 0, i |-> 0,
     totalExpanded |-> 0, inspected |-> 0, last |-> <<>>, threw |-> FALSE,
     clicksDone |-> 0, matched |-> 0]

NoTab ==
    [sel |-> 1, pos |-> "query", tabs |-> 0, i |-> 0, totalTabs |-> 0,
     queries |-> 0, last |-> <<>>, threw |-> FALSE, clicksDone |-> 0,
     matched |-> 0]

Init ==
    /\ variant \in {"enhanced", "basic"}
    /\ websites \in TargetLists
    /\ idx = 0
    /\ pc = "start"
    /\ browserOpen = TRUE
    /\ failedUrls = <<>>
    /\ files = <<>>
    /\ logFile = <<>>
    /\ logWrites = 0
    /\ contentHandle = NULL
    /\ contentText = <<>>
    /\ lines = <<>>
    /\ scroll = NoScroll
    /\ acc = NoAcc
    /\ tab = NoTab
    /\ results = <<>>
    /\ failedAt = <<>>
    /\ navLog = <<>>
    /\ stageLog = <<>>

(* ======================= shared loop machinery ======================== *)
\* a slip: the failure is printed but not kept
RecordFailureDropped(list, u, reason) == list

\* a slip: the entry is put in front of the list instead of behind it
RecordFailureInFront(list, u, reason) == <<[url |-> u, reason |-> reason]>> \o list

\* failedUrls.push({ url: url, reason: reason })
RecordFailure(list, u, reason) == Append(list, [url |-> u, reason |-> reason])

\* a slip: the same URL is navigated to again
RetryIteration(i, n) == [pc |-> "goto", idx |-> i]

\* for (const url of websites): the next element, or the code after the loop
NextIteration(i, n) ==
    IF i < n THEN [pc |-> "goto", idx |-> i + 1] ELSE [pc |-> "afterLoop", idx |-> i]

\* fs.writeFileSync(filePath, content): the file is created or replaced
WriteFile(fs, name, content) ==
    [f \in DOMAIN fs \cup {name} |-> IF f = name THEN content ELSE fs[f]]

\* the block-scoped locals of one iteration go out of scope
ResetLocals ==
    /\ contentHandle' = NULL
    /\ contentText' = <<>>
    /\ lines' = <<>>
    /\ scroll' = NoScroll
    /\ acc' = NoAcc
    /\ tab' = NoTab

\* the iteration ends (normally, by continue, or in the catch block)
EndIteration(res, fails, log) ==
    /\ results' = Append(results, res)
    /\ failedUrls' = fails
    /\ failedAt' = IF fails = failedUrls THEN failedAt ELSE Append(failedAt, idx)
    /\ stageLog' = log
    /\ pc' = NextIteration(idx, Len(websites)).pc
    /\ idx' = NextIteration(idx, Len(websites)).idx
    /\ ResetLocals

\* csv: <<>> or <<the content written>>; file: its path
NoCsv(cause, message) ==
    [csv |-> <<>>, file |-> <<>>, cause |-> cause, message |-> message]

(* ==================== part_000: the enhanced script =================== *)
\* a slip: the missing-container branch reports the empty-content reason
WrongContainerReason == "No visible text found"

MissingContainerReason == "No matching Elementor div found"

NoVisibleTextReason == "No visible text found"

\* catch (error) { failedUrls.push({ url, reason: error.message }); continue }
Caught(message, log) ==
    EndIteration(NoCsv("exception", message),
                 RecordFailure(failedUrls, url, message),
                 Append(log, "failed"))

\* if (websites.length === 0) { await browser.close(); return; }
Start ==
    /\ variant = "enhanced"
    /\ pc = "start"
    /\ IF Len(websites) = 0
       THEN /\ browserOpen' = FALSE
            /\ pc' = "done"
            /\ idx' = idx
       ELSE /\ browserOpen' = browserOpen
            /\ pc' = "goto"
            /\ idx' = 1
    /\ UNCHANGED <<variant, websites, failedUrls, files, logFile, logWrites,
                   contentHandle, contentText, lines, scroll, acc, tab,
                   results, failedAt, navLog, stageLog>>

\* await page.goto(url, { waitUntil: "domcontentloaded", timeout: 10000 })
Goto ==
    /\ variant = "enhanced"
    /\ pc = "goto"
    /\ navLog' = Append(navLog, url)
    /\ \/ /\ pc' = "stabilize"
          /\ stageLog' = <<"navigate">>
          /\ UNCHANGED <<idx, failedUrls, contentHandle, contentText, lines,
                         scroll, acc, tab, results, failedAt>>
       \/ \E m \in ErrorMessages : Caught(m, <<"navigate">>)
    /\ UNCHANGED <<variant, websites, browserOpen, files, logFile, logWrites>>

\* await page.waitForTimeout(1000); autoScroll(page) starts its interval timer
\* with totalHeight = 0 on a page of some scrollable height
AutoScrollStart ==
    /\ variant = "enhanced"
    /\ pc = "stabilize"
    /\ \/ /\ \E h \in Heights :
                scroll' = [ahead |-> h, timer |-> TRUE, atTop |-> TRUE,
                           resets |-> 0]
          /\ pc' = "scroll"
          /\ stageLog' = Append(stageLog, "stabilize")
          /\ UNCHANGED <<idx, failedUrls, contentHandle, contentText, lines,
                         acc, tab, results, failedAt>>
       \/ \E m \in ErrorMessages : Caught(m, Append(stageLog, "stabilize"))
    /\ UNCHANGED <<variant, websites, browserOpen, files, logFile, logWrites,
                   navLog>>

\* one run of the setInterval callback: scrollBy(0, distance);
\* totalHeight += distance; if (totalHeight >= scrollHeight) stop, go to top
ScrollTick ==
    /\ pc = "scroll"
    /\ scroll.timer
    /\ IF scroll.ahead - distance <= 0
       THEN /\ scroll' = [ahead |-> 0, timer |-> FALSE, atTop |-> TRUE,
                          resets |-> scroll.resets + 1]
            /\ pc' = "settle"
       ELSE /\ scroll' = [scroll EXCEPT !.ahead = @ - distance, !.atTop = FALSE]
            /\ pc' = pc
    /\ UNCHANGED <<variant, websites, idx, browserOpen, failedUrls, files,
                   logFile, logWrites, contentHandle, contentText, lines, acc,
                   tab, results, failedAt, navLog, stageLog>>

\* the page loads more content while it is scrolled: document.body.scrollHeight
\* grows between two timer callbacks
PageGrow ==
    /\ pc = "scroll"
    /\ scroll.timer
    /\ \E g \in {50, 100} :
          /\ scroll.ahead + g <= 50 * MaxHeight
          /\ scroll' = [scroll EXCEPT !.ahead = @ + g]
    /\ UNCHANGED <<variant, websites, idx, pc, browserOpen, failedUrls, files,
                   logFile, logWrites, contentHandle, contentText, lines, acc,
                   tab, results, failedAt, navLog, stageLog>>

\* page.evaluate rejects while the page is scrolled (the page navigated or
\* closed); autoScroll has no try: the loop's catch block runs
ScrollAbort ==
    /\ pc = "scroll"
    /\ \E m \in ErrorMessages : Caught(m, stageLog)
    /\ UNCHANGED <<variant, websites, browserOpen, files, logFile, logWrites,
                   navLog>>

\* await page.waitForTimeout(1000) after the scroll promise resolved
ScrollSettle ==
    /\ pc = "settle"
    /\ pc' = "lookup"
    /\ UNCHANGED <<variant, websites, idx, browserOpen, failedUrls, files,
                   logFile, logWrites, contentHandle, contentText, lines,
                   scroll, acc, tab, results, failedAt, navLog, stageLog>>

\* let contentHandle = await page.$(wp-page); if (!contentHandle)
\* contentHandle = await page.$(single-post)
FirstMatch(first, second) == IF first # NULL THEN first ELSE second

\* if (!contentHandle) { failedUrls.push(...); continue; }
IsMissing(handle) == handle = NULL

Lookup ==
    /\ variant = "enhanced"
    /\ pc = "lookup"
    /\ \/ \E first \in {"wp-page", NULL}, second \in {"single-post", NULL} :
            IF IsMissing(FirstMatch(first, second))
            THEN EndIteration(NoCsv("missing container", NULL),
                              RecordFailure(failedUrls, url, MissingContainerReason),
                              Append(Append(stageLog, "locate"), "failed"))
            ELSE /\ contentHandle' = FirstMatch(first, second)
                 /\ pc' = "accordions"
                 /\ stageLog' = Append(stageLog, "locate")
                 /\ UNCHANGED <<idx, failedUrls, contentText, lines, scroll,
                                acc, tab, results, failedAt>>
       \/ \E m \in ErrorMessages : Caught(m, Append(stageLog, "locate"))
    /\ UNCHANGED <<variant, websites, browserOpen, files, logFile, logWrites,
                   navLog>>

(* --------------------------- expandAccordions ------------------------- *)
\* a slip: every title is clicked, expanded or not
ClickAlways(isExpanded) == TRUE

\* if (!isExpanded) { await title.click(); ... }
ShouldClick(isExpanded) == ~isExpanded

\* const accordionTitles = await page.$$(selector); an empty result skips the
\* selector.  A throw here leaves the function through its outer catch.
AccQuery ==
    /\ pc = "accordions"
    /\ acc.pos = "query"
    /\ acc.sel <= NumAccordionSelectors
    /\ stageLog' = IF acc.sel = 1 THEN Append(stageLog, "expand accordions")
                   ELSE stageLog
    /\ \/ /\ \E n \in 0..(MaxElems - acc.matched) :
                acc' = IF n = 0
                       THEN [acc EXCEPT !.sel = @ + 1, !.accordionTitles = 0,
                                        !.i = 0, !.inspected = 0, !.last = <<>>,
                                        !.threw = FALSE]
                       ELSE [acc EXCEPT !.pos = "elems", !.accordionTitles = n,
                                        !.i = 1, !.inspected = 0, !.last = <<>>,
                                        !.threw = FALSE, !.matched = @ + n]
          /\ pc' = pc
          /\ tab' = tab
       \/ /\ pc' = "tabs"
          /\ acc' = NoAcc
          /\ tab' = NoTab
    /\ UNCHANGED <<variant, websites, idx, browserOpen, failedUrls, files,
                   logFile, logWrites, contentHandle, contentText, lines,
                   scroll, results, failedAt, navLog>>

\* one pass of the inner for-of body with its own try/catch: the title's
\* state is read (or the read throws); a collapsed title is clicked (or the
\* click throws); totalExpanded++ follows a click that returned
AccElement ==
    /\ pc = "accordions"
    /\ acc.pos = "elems"
    /\ \E inspect \in {"expanded", "collapsed", "threw"}, click \in {"ok", "threw"} :
          LET doClick == inspect # "threw" /\ ShouldClick(inspect = "expanded")
              clicked == IF doClick THEN click ELSE "none"
              last    == acc.i = acc.accordionTitles
          IN  /\ ~doClick => click = "ok"
              /\ acc' = [acc EXCEPT
                            !.totalExpanded = IF clicked = "ok" THEN @ + 1 ELSE @,
                            !.clicksDone = IF clicked = "ok" THEN @ + 1 ELSE @,
                            !.inspected = @ + 1,
                            !.last = <<[inspect |-> inspect, click |-> clicked,
                                        afterThrow |-> acc.threw]>>,
                            !.threw = @ \/ inspect = "threw" \/ clicked = "threw",
                            !.i = IF last THEN @ ELSE @ + 1,
                            !.sel = IF last THEN @ + 1 ELSE @,
                            !.pos = IF last THEN "query" ELSE "elems"]
    /\ UNCHANGED <<variant, websites, idx, pc, browserOpen, failedUrls, files,
                   logFile, logWrites, contentHandle, contentText, lines,
                   scroll, tab, results, failedAt, navLog, stageLog>>

\* all selectors done: the total is logged and the function returns
AccFinish ==
    /\ pc = "accordions"
    /\ acc.pos = "query"
    /\ acc.sel > NumAccordionSelectors
    /\ pc' = "tabs"
    /\ acc' = NoAcc
    /\ tab' = NoTab
    /\ UNCHANGED <<variant, websites, idx, browserOpen, failedUrls, files,
                   logFile, logWrites, contentHandle, contentText, lines,
                   scroll, results, failedAt, navLog, stageLog>>

(* ---------------------------- processAllTabs -------------------------- *)
\* an element handle: the query that returned it and its index in the result
Handles(query, n) == [k \in 1..n |-> [query |-> query, index |-> k]]

\* a slip: the handle of the first query is clicked
StaleTab(tabs, currentTabs, i) == <<tabs[i]>>

\* if (currentTabs[i]) await currentTabs[i].click(): the handle to click, as
\* a sequence of one element, or the empty sequence when there is none
TabToClick(tabs, currentTabs, i) ==
    IF i <= Len(currentTabs) THEN <<currentTabs[i]>> ELSE <<>>

\* const tabs = await page.$$(selector); an empty result skips the selector.
\* A throw here leaves the function through its outer catch.
TabQuery ==
    /\ pc = "tabs"
    /\ tab.pos = "query"
    /\ tab.sel <= NumTabSelectors
    /\ stageLog' = IF tab.sel = 1 THEN Append(stageLog, "expand tabs")
                   ELSE stageLog
    /\ \/ /\ \E n \in 0..(MaxTabs - tab.matched) :
                tab' = IF n = 0
                       THEN [tab EXCEPT !.sel = @ + 1, !.tabs = 0, !.i = 0,
                                        !.queries = 0, !.last = <<>>, !.threw = FALSE]
                       ELSE [tab EXCEPT !.pos = "elems", !.tabs = n, !.i = 0,
                                        !.queries = 0, !.last = <<>>, !.threw = FALSE,
                                        !.matched = @ + n]
          /\ pc' = pc
       \/ /\ pc' = "extract"
          /\ tab' = NoTab
    /\ UNCHANGED <<variant, websites, idx, browserOpen, failedUrls, files,
                   logFile, logWrites, contentHandle, contentText, lines,
                   scroll, acc, results, failedAt, navLog>>

\* one pass of for (let i = 0; i < tabs.length; i++) with its own try/catch
\* (i counts from 1 here): the selector is queried again, the element at
\* index i of the fresh result is clicked if there is one, totalTabs++ follows
\* a click that returned; a throw of the query or of the click is logged
TabClick ==
    /\ pc = "tabs"
    /\ tab.pos = "elems"
    /\ LET i    == tab.i + 1
           q    == tab.queries + 1
           last == i = tab.tabs
           step(rec, ok) ==
               tab' = [tab EXCEPT
                          !.i = IF last THEN 0 ELSE i,
                          !.queries = q,
                          !.last = rec,
                          !.threw = @ \/ rec[1].click \in {"threw", "query threw"},
                          !.totalTabs = IF ok THEN @ + 1 ELSE @,
                          !.clicksDone = IF ok THEN @ + 1 ELSE @,
                          !.sel = IF last THEN @ + 1 ELSE @,
                          !.pos = IF last THEN "query" ELSE "elems"]
       IN  \/ \E m \in 0..MaxTabs, click \in {"ok", "threw"} :
                LET target == TabToClick(Handles(0, tab.tabs), Handles(q, m), i)
                IN  /\ target = <<>> => click = "ok"
                    /\ step(<<[i |-> i, fresh |-> q, present |-> i <= m,
                               target |-> target, afterThrow |-> tab.threw,
                               click |-> IF target = <<>> THEN "none" ELSE click]>>,
                            target # <<>> /\ click = "ok")
           \/ step(<<[i |-> i, fresh |-> q, present |-> FALSE, target |-> <<>>,
                      afterThrow |-> tab.threw,
                      click |-> "query threw"]>>, FALSE)
    /\ UNCHANGED <<variant, websites, idx, pc, browserOpen, failedUrls, files,
                   logFile, logWrites, contentHandle, contentText, lines,
                   scroll, acc, results, failedAt, navLog, stageLog>>

\* all selectors done: the total is logged and the function returns
TabFinish ==
    /\ pc = "tabs"
    /\ tab.pos = "query"
    /\ tab.sel > NumTabSelectors
    /\ pc' = "extract"
    /\ tab' = NoTab
    /\ UNCHANGED <<variant, websites, idx, browserOpen, failedUrls, files,
                   logFile, logWrites, contentHandle, contentText, lines,
                   scroll, acc, results, failedAt, navLog, stageLog>>

(* ------------------- extract, normalize, persist, log ----------------- *)
\* const contentText = await contentHandle.evaluate(...clone.textContent)
Extract ==
    /\ variant = "enhanced"
    /\ pc = "extract"
    /\ \/ /\ \E text \in PageTexts : contentText' = text
          /\ pc' = "normalize"
          /\ stageLog' = Append(stageLog, "extract")
          /\ UNCHANGED <<idx, failedUrls, contentHandle, lines, scroll, acc,
                         tab, results, failedAt>>
       \/ \E m \in ErrorMessages : Caught(m, Append(stageLog, "extract"))
    /\ UNCHANGED <<variant, websites, browserOpen, files, logFile, logWrites,
                   navLog>>

\* const lines = contentText.split(...).map(...).filter(...).filter(...);
\* if (lines.length === 0) { failedUrls.push(...); continue; }
Normalize ==
    /\ variant = "enhanced"
    /\ pc = "normalize"
    /\ LET ls == NormalizeLines(contentText)
       IN  IF Len(ls) = 0
           THEN EndIteration(NoCsv("no lines", NULL),
                             RecordFailure(failedUrls, url, NoVisibleTextReason),
                             Append(Append(stageLog, "normalize"), "failed"))
           ELSE /\ lines' = ls
                /\ pc' = "persist"
                /\ stageLog' = Append(stageLog, "normalize")
                /\ UNCHANGED <<idx, failedUrls, contentHandle, contentText,
                               scroll, acc, tab, results, failedAt>>
    /\ UNCHANGED <<variant, websites, browserOpen, files, logFile, logWrites,
                   navLog>>

\* filePath from the URL's path; fs.writeFileSync(filePath, csvContent, "utf8")
Persist ==
    /\ variant = "enhanced"
    /\ pc = "persist"
    /\ LET filePath == FilePath("ennovi", url)
           csvContent == CsvContent(TRUE, lines)
       IN  \/ /\ files' = WriteFile(files, filePath, csvContent)
              /\ EndIteration([csv |-> <<csvContent>>, file |-> filePath,
                               cause |-> "none", message |-> NULL],
                              failedUrls, Append(stageLog, "persist"))
           \/ /\ files' = files
              /\ \E m \in ErrorMessages : Caught(m, Append(stageLog, "persist"))
    /\ UNCHANGED <<variant, websites, browserOpen, logFile, logWrites, navLog>>

\* logContent: the count, then one URL/Reason block per entry, in list order
LogContent(fails) == [count |-> Len(fails), blocks |-> fails]

\* if (failedUrls.length > 0) fs.writeFileSync(logFilePath, logContent, "utf8");
\* the write is outside every try: when it throws, the async function rejects
WriteLog ==
    /\ variant = "enhanced"
    /\ pc = "afterLoop"
    /\ IF Len(failedUrls) > 0
       THEN \/ /\ logFile' = <<LogContent(failedUrls)>>
               /\ logWrites' = logWrites + 1
               /\ pc' = "close"
            \/ /\ pc' = "crashed"
               /\ UNCHANGED <<logFile, logWrites>>
       ELSE /\ pc' = "close"
            /\ UNCHANGED <<logFile, logWrites>>
    /\ UNCHANGED <<variant, websites, idx, browserOpen, failedUrls, files,
                   contentHandle, contentText, lines, scroll, acc, tab,
                   results, failedAt, navLog, stageLog>>

\* await browser.close()
Close ==
    /\ variant = "enhanced"
    /\ pc = "close"
    /\ browserOpen' = FALSE
    /\ pc' = "done"
    /\ UNCHANGED <<variant, websites, idx, failedUrls, files, logFile,
                   logWrites, contentHandle, contentText, lines, scroll, acc,
                   tab, results, failedAt, navLog, stageLog>>

(* ================== textScraper.js: the basic script ================== *)
\* continue / catch { continue }: the failure is printed, nothing is kept
BasicSkip(cause, message, log) ==
    EndIteration(NoCsv(cause, message), failedUrls, Append(log, "failed"))

\* if (websites.length === 0) { await browser.close(); return; }
BasicStart ==
    /\ variant = "basic"
    /\ pc = "start"
    /\ IF Len(websites) = 0
       THEN /\ browserOpen' = FALSE
            /\ pc' = "done"
            /\ idx' = idx
       ELSE /\ browserOpen' = browserOpen
            /\ pc' = "goto"
            /\ idx' = 1
    /\ UNCHANGED <<variant, websites, failedUrls, files, logFile, logWrites,
                   contentHandle, contentText, lines, scroll, acc, tab,
                   results, failedAt, navLog, stageLog>>

\* await page.goto(url, { waitUntil: "domcontentloaded", timeout: 10000 })
BasicGoto ==
    /\ variant = "basic"
    /\ pc = "goto"
    /\ navLog' = Append(navLog, url)
    /\ \/ /\ pc' = "lookup"
          /\ stageLog' = <<"navigate">>
          /\ UNCHANGED <<idx, failedUrls, contentHandle, contentText, lines,
                         scroll, acc, tab, results, failedAt>>
       \/ \E m \in ErrorMessages : BasicSkip("exception", m, <<"navigate">>)
    /\ UNCHANGED <<variant, websites, browserOpen, files, logFile, logWrites>>

\* page.$(post-type page), then page.$(post-type elementor_library);
\* if (!contentHandle) { console.log(...); continue; }
BasicLookup ==
    /\ variant = "basic"
    /\ pc = "lookup"
    /\ \/ \E first \in {"page", NULL}, second \in {"elementor_library", NULL} :
            IF FirstMatch(first, second) = NULL
            THEN BasicSkip("missing container", NULL, Append(stageLog, "locate"))
            ELSE /\ contentHandle' = FirstMatch(first, second)
                 /\ pc' = "extract"
                 /\ stageLog' = Append(stageLog, "locate")
                 /\ UNCHANGED <<idx, failedUrls, contentText, lines, scroll,
                                acc, tab, results, failedAt>>
       \/ \E m \in ErrorMessages :
            BasicSkip("exception", m, Append(stageLog, "locate"))
    /\ UNCHANGED <<variant, websites, browserOpen, files, logFile, logWrites,
                   navLog>>

\* const contentText = await contentHandle.evaluate((el) => el.innerText)
BasicExtract ==
    /\ variant = "basic"
    /\ pc = "extract"
    /\ \/ /\ \E text \in PageTexts : contentText' = text
          /\ pc' = "normalize"
          /\ stageLog' = Append(stageLog, "extract")
          /\ UNCHANGED <<idx, failedUrls, contentHandle, lines, scroll, acc,
                         tab, results, failedAt>>
       \/ \E m \in ErrorMessages :
            BasicSkip("exception", m, Append(stageLog, "extract"))
    /\ UNCHANGED <<variant, websites, browserOpen, files, logFile, logWrites,
                   navLog>>

\* const lines = contentText.split(...).map(...).filter(...);
\* if (lines.length === 0) { console.log(...); continue; }
BasicNormalize ==
    /\ variant = "basic"
    /\ pc = "normalize"
    /\ LET ls == BasicNormalizeLines(contentText)
       IN  IF Len(ls) = 0
           THEN BasicSkip("no lines", NULL, Append(stageLog, "normalize"))
           ELSE /\ lines' = ls
                /\ pc' = "persist"
                /\ stageLog' = Append(stageLog, "normalize")
                /\ UNCHANGED <<idx, failedUrls, contentHandle, contentText,
                               scroll, acc, tab, results, failedAt>>
    /\ UNCHANGED <<variant, websites, browserOpen, files, logFile, logWrites,
                   navLog>>

\* filePath from the URL's path; fs.writeFileSync(filePath, csvContent, "utf8")
BasicPersist ==
    /\ variant = "basic"
    /\ pc = "persist"
    /\ LET filePath == FilePath("interplex", url)
           csvContent == CsvContent(FALSE, lines)
       IN  \/ /\ files' = WriteFile(files, filePath, csvContent)
              /\ EndIteration([csv |-> <<csvContent>>, file |-> filePath,
                               cause |-> "none", message |-> NULL],
                              failedUrls, Append(stageLog, "persist"))
           \/ /\ files' = files
              /\ \E m \in ErrorMessages :
                    BasicSkip("exception", m, Append(stageLog, "persist"))
    /\ UNCHANGED <<variant, websites, browserOpen, logFile, logWrites, navLog>>

\* await browser.close()
BasicClose ==
    /\ variant = "basic"
    /\ pc = "afterLoop"
    /\ browserOpen' = FALSE
    /\ pc' = "done"
    /\ UNCHANGED <<variant, websites, idx, failedUrls, files, logFile,
                   logWrites, contentHandle, contentText, lines, scroll, acc,
                   tab, results, failedAt, navLog, stageLog>>

(* =========================== specifications =========================== *)
\* the steps the scripts take
ProgramStep ==
    \/ Start \/ Goto \/ AutoScrollStart \/ ScrollTick \/ ScrollAbort
    \/ ScrollSettle \/ Lookup \/ AccQuery \/ AccElement \/ AccFinish
    \/ TabQuery \/ TabClick \/ TabFinish \/ Extract \/ Normalize \/ Persist
    \/ WriteLog \/ Close
    \/ BasicStart \/ BasicGoto \/ BasicLookup \/ BasicExtract
    \/ BasicNormalize \/ BasicPersist \/ BasicClose

Next == ProgramStep \/ PageGrow

Spec == Init /\ [][Next]_vars

\* setInterval: while the timer is set its callback keeps being run; the page
\* (PageGrow) and the browser's rejections (ScrollAbort) owe nothing
FairSpec == Init /\ [][Next]_vars /\ WF_vars(ScrollTick)

(* ----------------- the line filter on generated texts ----------------- *)
\* the chunks the generated text blocks are made of
FilterChunks ==
    {"\n", "\r", " ", "Hello", "function", "(", "{", "}", ";", "=>"}

\* one line for every alternative of every pattern, and lines that look
\* like code but match nothing
SampleLines ==
    { <<"var", " ", "x">>, <<"return", "\t", "x">>, <<"class", " ", "A">>,
      <<"jQuery", "(", "x", ")">>, <<"$(", "x", ")">>, <<"x", ".ready(", ")">>,
      <<"x", ".ajax(", ")">>, <<"x", ".get(", ")">>, <<"x", ".post(", ")">>,
      <<"console.log", "(", ")">>, <<"console.error">>, <<"console.warn">>,
      <<"document.getElementById">>, <<"document.querySelector">>,
      <<"document.addEventListener">>, <<"window.location">>,
      <<"window.addEventListener">>, <<"window.setTimeout">>,
      <<"p", ".then(", ")">>, <<"p", ".catch(", ")">>,
      <<"an", " ", "async", " ", "job">>, <<"please", " ", "await", " ", "us">>,
      <<"function", " ", " ", "(", ")">>, <<"x", "=>", " ", "{">>,
      <<"{", "a", "}">>, <<"}">>, <<"done", ";">>,
      <<"if">>, <<"function">>, <<"x", "$(", ")">>, <<"async">>,
      <<"a", "{", "b", "}", "c">>, <<"{">>, <<"a", ";", "b">>,
      <<"Welcome">>, <<"Contact us">> }

FilterTexts ==
    UNION { [1..n -> FilterChunks] : n \in 0..MaxTextLen }
        \cup { <<" ">> \o l \o <<" ", "\n">> : l \in SampleLines }
        \cup PageTexts

\* the state at "const lines = contentText..." of the first iteration, for
\* any text the container may hold
InitFilter ==
    /\ variant = "enhanced"
    /\ websites \in [1..1 -> Urls]
    /\ idx = 1
    /\ pc = "normalize"
    /\ browserOpen = TRUE
    /\ failedUrls = <<>>
    /\ files = <<>>
    /\ logFile = <<>>
    /\ logWrites = 0
    /\ contentHandle = "wp-page"
    /\ contentText \in FilterTexts
    /\ lines = <<>>
    /\ scroll = NoScroll
    /\ acc = NoAcc
    /\ tab = NoTab
    /\ results = <<>>
    /\ failedAt = <<>>
    /\ navLog = <<websites[1]>>
    /\ stageLog = <<"navigate", "stabilize", "locate", "expand accordions",
                    "expand tabs", "extract">>

NextFilter == Normalize \/ Persist

SpecFilter == InitFilter /\ [][NextFilter]_vars

(* ============================== claims ================================ *)
\* the k-th smallest element of a set of numbers
Nth(S, k) == CHOOSE x \in S : Cardinality({y \in S : y <= x}) = k

\* positions of the raw lines that are non-empty after trimming and that the
\* classifier does not flag
KeptPositions(text) ==
    { k \in 1..Len(SplitLines(text)) :
        /\ Trim(SplitLines(text)[k]) # <<>>
        /\ ~isJavaScriptLine(Trim(SplitLines(text)[k])) }

IsTrimmed(line) ==
    line # <<>> /\ Head(line) \notin Whitespace /\ line[Len(line)] \notin Whitespace

\* C6: the Extraction Result is exactly the subsequence, in original order, of
\* the trimmed raw lines that are non-empty and not flagged by isJavaScriptLine;
\* every line written to a CSV is non-empty, trimmed and unflagged; a CSV is
\* written only when a line survives; the raw lines Welcome / empty / blanks /
\* "function foo() {" / Contact us give Welcome, Contact us.
C6_StepOk ==
    /\ (pc = "normalize" /\ pc' = "persist") =>
          /\ Len(lines') = Cardinality(KeptPositions(contentText))
          /\ Len(lines') > 0
          /\ \A j \in 1..Len(lines') :
                /\ lines'[j] = Trim(SplitLines(contentText)[Nth(KeptPositions(contentText), j)])
                /\ IsTrimmed(lines'[j])
                /\ ~isJavaScriptLine(lines'[j])
          /\ contentText = ExampleText => lines' = << <<"Welcome">>, <<"Contact us">> >>
    /\ (pc = "normalize" /\ pc' # "persist") =>
          /\ KeptPositions(contentText) = {}
          /\ files' = files
          /\ results'[Len(results')].csv = <<>>
    /\ (pc = "persist" /\ files' # files) =>
          /\ Len(lines) > 0
          /\ results'[Len(results')].csv[1].rows
                = [j \in 1..Len(lines) |-> EscapeQuotes(lines[j])]
          /\ \A j \in 1..Len(lines) : IsTrimmed(lines[j]) /\ ~isJavaScriptLine(lines[j])

C6_FilterKeepsExactlyTheProseLines == [][C6_StepOk]_vars

\* the example text has been filtered to its two prose lines
C6_Witness ==
    /\ pc = "persist"
    /\ contentText = ExampleText
    /\ lines = << <<"Welcome">>, <<"Contact us">> >>

(* ------------------------- the run as a whole ------------------------- *)
IsPrefix(a, b) == Len(a) <= Len(b) /\ \A k \in 1..Len(a) : a[k] = b[k]

LoopOver == pc \in {"afterLoop", "close", "done", "crashed"} /\ Len(websites) > 0

HasCsv(i) == results[i].csv # <<>>

\* the entries of failedUrls pushed by iteration i
RecordsOf(i) == { k \in 1..Len(failedUrls) : failedAt[k] = i }

NoDuplicates(list) ==
    \A i \in 1..Len(list), j \in 1..Len(list) : list[i] = list[j] => i = j

\* the stages run for the current URL, without the final "failed" mark
StagesRun ==
    IF stageLog # <<>> /\ stageLog[Len(stageLog)] = "failed"
    THEN SubSeq(stageLog, 1, Len(stageLog) - 1) ELSE stageLog

Abandoned == stageLog # <<>> /\ stageLog[Len(stageLog)] = "failed"

\* C1 as stated (for both scripts): at the end of a run over a non-empty
\* list, every URL without a CSV has a record, with a reason, in the failure
\* list and in the failure log written from it.
C1_EveryUrlWithoutCsvIsLogged ==
    (pc = "done" /\ Len(websites) > 0) =>
        \A i \in 1..Len(websites) :
            \/ HasCsv(i)
            \/ \E k \in 1..Len(failedUrls) :
                  /\ failedUrls[k].url = websites[i]
                  /\ failedUrls[k].reason # ""
                  /\ logFile # <<>>
                  /\ logFile[1].blocks[k] = failedUrls[k]

\* C1 amended: the same, for the script that keeps a failure list (part_000):
\* once the loop is over every URL without a CSV has a record with a reason in
\* failedUrls, and the log of a finished run holds that record.
C1_EnhancedLogsEveryUrlWithoutCsv ==
    (variant = "enhanced" /\ LoopOver) =>
        \A i \in 1..Len(websites) :
            \/ HasCsv(i)
            \/ \E k \in 1..Len(failedUrls) :
                  /\ failedUrls[k].url = websites[i]
                  /\ failedUrls[k].reason # ""
                  /\ pc = "done" => logFile # <<>> /\ logFile[1].blocks[k] = failedUrls[k]

\* a finished run of part_000 with a URL that got no CSV and is in the log
C1_Witness ==
    /\ variant = "enhanced"
    /\ pc = "done"
    /\ Len(websites) = MaxUrls
    /\ \E i \in 1..Len(websites) : ~HasCsv(i)
    /\ \E i \in 1..Len(websites) : HasCsv(i)
    /\ logFile # <<>>

\* C2: after a run over distinct URLs there are as many CSV files as URLs
\* that completed, and each of them still holds what its URL wrote.
C2_OneCsvPerSuccessfulUrl ==
    (pc = "done" /\ NoDuplicates(websites)) =>
        /\ Cardinality(DOMAIN files)
              = Cardinality({ i \in 1..Len(results) : HasCsv(i) })
        /\ \A i \in 1..Len(results) :
              HasCsv(i) => /\ results[i].file \in DOMAIN files
                           /\ files[results[i].file] = results[i].csv[1]

\* C3: when the run has stopped, it has stopped normally: every listed URL
\* was navigated to, the failure log is written if a URL failed, and the
\* browser is closed.
C3_RunEndsNormally ==
    pc \in {"done", "crashed"} =>
        /\ pc = "done"
        /\ navLog = websites
        /\ ~browserOpen
        /\ Len(failedUrls) > 0 => logFile # <<>>

\* the order of the stages the specification gives
SpecStageOrder ==
    <<"navigate", "stabilize", "expand accordions", "expand tabs", "locate",
      "extract", "normalize", "persist">>

\* the order of the stages in the scripts
CodeStageOrder ==
    IF variant = "enhanced"
    THEN <<"navigate", "stabilize", "locate", "expand accordions",
           "expand tabs", "extract", "normalize", "persist">>
    ELSE <<"navigate", "locate", "extract", "normalize", "persist">>

\* one URL at a time, in list order, each navigated to once, no stage after
\* a failure, the pipeline of a URL over before the next navigation
SequentialNoRetry ==
    /\ Len(navLog) <= Len(websites)
    /\ navLog = SubSeq(websites, 1, Len(navLog))
    /\ Len(navLog) = (IF pc = "goto" THEN idx - 1 ELSE idx)
    /\ Len(results) = (IF pc \in {"start", "goto", "afterLoop", "close", "done", "crashed"}
                       THEN Len(navLog) ELSE Len(navLog) - 1)
    /\ \A k \in 1..(Len(stageLog) - 1) : stageLog[k] # "failed"
    /\ (pc \in {"goto", "afterLoop", "close", "done", "crashed"} /\ stageLog # <<>>) =>
          /\ stageLog[Len(stageLog)] \in {"persist", "failed"}
          /\ HasCsv(Len(results)) <=> ~Abandoned
    /\ pc = "done" => navLog = websites

\* C4 as stated: for part_000, the stages of a URL run in the order
\* stabilize -> expand -> isolate (locate the container, extract its text)
\* -> normalize -> persist, one URL at a time, in list order, without retry.
C4_StagesInSpecOrder ==
    /\ SequentialNoRetry
    /\ variant = "enhanced" => IsPrefix(StagesRun, SpecStageOrder)

\* C4 amended: the stages of a URL run in the order stabilize -> locate the
\* container -> expand accordions -> expand tabs -> extract the container's
\* text -> normalize -> persist (the container is looked up, and a URL
\* without one is abandoned, before anything is expanded); the rest as stated.
C4_StagesInCodeOrder ==
    /\ SequentialNoRetry
    /\ IsPrefix(StagesRun, CodeStageOrder)

\* the second URL is at its persist stage after the first was abandoned
C4_Witness ==
    /\ variant = "enhanced"
    /\ idx = 2
    /\ pc = "persist"
    /\ ~HasCsv(1)
    /\ StagesRun = SubSeq(CodeStageOrder, 1, 7)

\* C5: in part_000 every iteration that ends without a CSV pushes exactly one
\* failure record, for its URL, whose reason is "No matching Elementor div
\* found" when no container matched, "No visible text found" when no line
\* survived, and the error's message when a step threw; an iteration that
\* wrote its CSV pushes none.
C5_OneRecordPerFailureWithItsReason ==
    variant = "enhanced" =>
        \A i \in 1..Len(results) :
            IF HasCsv(i)
            THEN RecordsOf(i) = {}
            ELSE /\ Cardinality(RecordsOf(i)) = 1
                 /\ \A k \in RecordsOf(i) :
                       /\ failedUrls[k].url = websites[i]
                       /\ results[i].cause = "missing container"
                             => failedUrls[k].reason = "No matching Elementor div found"
                       /\ results[i].cause = "no lines"
                             => failedUrls[k].reason = "No visible text found"
                       /\ results[i].cause = "exception"
                             => failedUrls[k].reason = results[i].message
                       /\ results[i].cause \in {"missing container", "no lines", "exception"}

\* a missing container and an exception in one run of part_000
C5_Witness ==
    /\ variant = "enhanced"
    /\ Len(results) = 2
    /\ results[1].cause = "missing container"
    /\ results[2].cause = "exception"
    /\ Len(failedUrls) = 2

\* C7: failed_scrapes.txt is written only after the loop, only when a URL
\* failed, at most once; its count is the number of records and its blocks are
\* the records in the order of the failing URLs in the list; failedUrls only
\* ever grows at its end.
C7_LogState ==
    /\ logWrites <= 1
    /\ logWrites = 0 <=> logFile = <<>>
    /\ logFile # <<>> =>
          /\ pc \in {"close", "done"}
          /\ Len(failedUrls) > 0
          /\ logFile[1].count = Len(failedUrls)
          /\ logFile[1].blocks = failedUrls
    /\ (pc \in {"close", "done"} /\ Len(failedUrls) = 0) => logFile = <<>>
    /\ Len(failedAt) = Len(failedUrls)
    /\ \A k \in 1..Len(failedUrls) :
          /\ failedAt[k] \in 1..Len(websites)
          /\ failedUrls[k].url = websites[failedAt[k]]
          /\ k > 1 => failedAt[k - 1] < failedAt[k]

C7_FailureLogWrittenOnceInOrder ==
    []C7_LogState /\ [][IsPrefix(failedUrls, failedUrls')]_vars

\* a written log with two blocks
C7_Witness ==
    /\ pc = "done"
    /\ logFile # <<>>
    /\ logFile[1].count = 2
    /\ logFile[1].blocks[1].reason # logFile[1].blocks[2].reason

\* C8: in expandAccordions every matched title is inspected, whatever
\* happened to the titles before it; a click is attempted exactly on the
\* titles found collapsed; totalExpanded is the number of clicks that
\* returned; and no URL is abandoned in expandAccordions.
C8_AccordionsIsolatedPerElement ==
    /\ pc = "accordions" =>
          /\ acc.totalExpanded = acc.clicksDone
          /\ acc.sel \in 1..(NumAccordionSelectors + 1)
          /\ acc.pos = "elems" =>
                /\ acc.i \in 1..acc.accordionTitles
                /\ acc.inspected = acc.i - 1
          /\ acc.pos = "query" => acc.inspected = acc.accordionTitles
          /\ acc.last # <<>> =>
                /\ acc.last[1].inspect = "collapsed" <=> acc.last[1].click # "none"
                /\ acc.last[1].click = "ok" => acc.totalExpanded > 0
    /\ Abandoned => StagesRun[Len(StagesRun)] # "expand accordions"

\* a collapsed title was clicked after an earlier title of the selector threw
C8_Witness ==
    /\ pc = "accordions"
    /\ acc.last # <<>>
    /\ acc.last[1].afterThrow
    /\ acc.last[1].inspect = "collapsed"
    /\ acc.last[1].click = "ok"
    /\ acc.inspected = acc.accordionTitles

\* C9: in processAllTabs every index below tabs.length gets its own fresh
\* query; the click goes to the element at that index of the fresh result and
\* to nothing when there is none; a throw does not stop the loop; totalTabs is
\* the number of clicks that returned.
C9_TabsClickedFromFreshQuery ==
    pc = "tabs" =>
        /\ tab.totalTabs = tab.clicksDone
        /\ tab.sel \in 1..(NumTabSelectors + 1)
        /\ tab.pos = "elems" => tab.queries = tab.i /\ tab.i < tab.tabs
        /\ (tab.pos = "query" /\ tab.last # <<>>) => tab.queries = tab.tabs
        /\ tab.last # <<>> =>
              LET r == tab.last[1]
              IN  /\ r.fresh = tab.queries
                  /\ r.fresh >= 1
                  /\ r.i = r.fresh
                  /\ r.click \in {"ok", "threw"} =>
                        /\ r.present
                        /\ r.target = <<[query |-> r.fresh, index |-> r.i]>>
                  /\ r.click = "none" => ~r.present /\ r.target = <<>>
                  /\ r.click = "query threw" => r.target = <<>>
                  /\ r.click = "ok" => tab.totalTabs > 0

\* the second tab was clicked, from the second query, after the first threw
C9_Witness ==
    /\ pc = "tabs"
    /\ tab.last # <<>>
    /\ tab.last[1].afterThrow
    /\ tab.last[1].i = 2
    /\ tab.last[1].click = "ok"
    /\ tab.last[1].target = <<[query |-> 2, index |-> 2]>>
    /\ tab.totalTabs = 1

\* C10: every scroll loop that starts comes to its end: on any page, also one
\* that grows while it is scrolled, the timer is eventually stopped (the loop
\* reached totalHeight >= scrollHeight, after which it goes back to the top
\* once and autoScroll returns).
C10_AutoScrollAlwaysCompletes ==
    (pc = "scroll" /\ scroll.timer) ~> ~(pc = "scroll" /\ scroll.timer)

=============================================================================
